---- MODULE Spec2Model ----
(***************************************************************************)
(* State machine of MovieRecommendationApp (frontend/src/App.jsx): the     *)
(* component's useState cells, its event handlers, and the asynchronous    *)
(* handleGetRecommendations with its two suspension points (the fetch and  *)
(* response.json()).  A click handler and the re-render React performs at  *)
(* the end of a discrete event form one step, so the submit button's       *)
(* disabled attribute always shows the loading cell.                       *)
(***************************************************************************)
EXTENDS Integers, Sequences, FiniteSets, TLC

\* ---------------------------------------------------------------- bounds
NumMoods == 2
NumGenres == 3
NumLanguages == 2
NumPlatforms == 2
MaxRequests == 2
MaxEdits == 4

\* ------------------------------------------------- the option lists
moods == <<"Feel-good", "Thriller", "Mystery", "Emotional", "Light-hearted", "Dark", "Inspirational">>
allGenres == <<"Action", "Drama", "Comedy", "Thriller", "Sci-Fi", "Romance", "Horror", "Documentary", "Animation", "Fantasy", "Crime", "Adventure">>
languages == <<"English", "Hindi", "Spanish", "French", "Japanese", "Korean", "German", "Italian", "Chinese", "Any">>
platforms == <<"Netflix", "Amazon Prime Video", "Disney+", "HBO Max", "Hulu", "Apple TV+", "Paramount+", "Any Platform">>

Min(a, b) == IF a < b THEN a ELSE b
Elems(s) == {s[i] : i \in 1..Len(s)}
FirstOf(s, n) == {s[i] : i \in 1..Min(n, Len(s))}

\* the options a user picks in the explored runs
MoodChoices == FirstOf(moods, NumMoods)
GenreChoices == FirstOf(allGenres, NumGenres)
LanguageChoices == FirstOf(languages, NumLanguages)
PlatformChoices == FirstOf(platforms, NumPlatforms)

\* ------------------------------------------------- values
\* a nullable cell is the empty set (null) or a singleton
Null == {}
Some(v) == {v}
Value(c) == CHOOSE v \in c : TRUE

EmptyGenresMessage == "Please select at least one genre!"
NotOkMessage == "Failed to get recommendations"
FallbackMessage == "An error occurred while fetching recommendations"
\* err.message of a rejected fetch / a rejected response.json(); an Error
\* may carry an empty message
NetworkMessages == {"Failed to fetch", ""}
ParseMessages == {"Unexpected token < in JSON"}
ModelTexts == {"1. Movie A\n2. Movie B"}

\* the useState cells; requests: the calls of handleGetRecommendations that
\* are suspended at an await; nfetch: the fetch calls issued so far; edits:
\* the form edits made so far; cleared (history): Clear Results was clicked
\* and Get Recommendations has not been clicked since
VARIABLES mood, genres, language, platform, recommendations, loading, error,
          requests, nfetch, edits, cleared

form == <<mood, genres, language, platform>>
vars == <<mood, genres, language, platform, recommendations, loading, error,
          requests, nfetch, edits, cleared>>

\* ------------------------------------------------- JSON
\* JSON.stringify({mood, genres, language, platform}): the members in the
\* order of the object literal
Stringify(m, g, l, p) ==
    << <<"mood", m>>, <<"genres", g>>, <<"language", l>>, <<"platform", p>> >>

Member(json, key) == (CHOOSE i \in 1..Len(json) : json[i][1] = key)

\* the backend's reading of the request body
ParseBody(json) ==
    [mood |-> json[Member(json, "mood")][2],
     genres |-> json[Member(json, "genres")][2],
     language |-> json[Member(json, "language")][2],
     platform |-> json[Member(json, "platform")][2]]

\* POST /api/recommend answers 200 with the generated text and the
\* preferences of the request
BackendResponse(body, text) ==
    [recommendations |-> text, preferences |-> ParseBody(body)]

\* ------------------------------------------------- Init
Init ==
    /\ mood = "Feel-good"
    /\ genres = <<"Drama">>
    /\ language = "English"
    /\ platform = "Netflix"
    /\ recommendations = Null
    /\ loading = FALSE
    /\ error = Null
    /\ requests = {}
    /\ nfetch = 0
    /\ edits = 0
    /\ cleared = FALSE

\* ------------------------------------------------- form handlers
\* onChange of a select fires when another option is chosen
SetMood(m) ==
    /\ edits < MaxEdits
    /\ m # mood
    /\ edits' = edits + 1
    /\ mood' = m
    /\ UNCHANGED <<genres, language, platform, recommendations, loading, error, requests, nfetch, cleared>>

SetLanguage(l) ==
    /\ edits < MaxEdits
    /\ l # language
    /\ edits' = edits + 1
    /\ language' = l
    /\ UNCHANGED <<mood, genres, platform, recommendations, loading, error, requests, nfetch, cleared>>

SetPlatform(p) ==
    /\ edits < MaxEdits
    /\ p # platform
    /\ edits' = edits + 1
    /\ platform' = p
    /\ UNCHANGED <<mood, genres, language, recommendations, loading, error, requests, nfetch, cleared>>

Includes(s, x) == \E i \in 1..Len(s) : s[i] = x
Filter(s, x) == SelectSeq(s, LAMBDA g : g # x)

ToggleAppend(prev, genre) == Append(prev, genre)
ToggleGenre(prev, genre) ==
    IF Includes(prev, genre) THEN Filter(prev, genre) ELSE Append(prev, genre)

HandleGenreToggle(genre) ==
    /\ edits < MaxEdits
    /\ edits' = edits + 1
    /\ genres' = ToggleGenre(genres, genre)
    /\ UNCHANGED <<mood, language, platform, recommendations, loading, error, requests, nfetch, cleared>>

\* ------------------------------------------------- handleGetRecommendations
\* disabled={loading} on the submit button
SubmitNeverDisabled == FALSE
SubmitDisabled == loading

GenresAlwaysValid(g) == TRUE
GenresValid(g) == ~(Len(g) = 0)

\* the click on "Get Recommendations", up to the first await
HandleGetRecommendations ==
    /\ ~SubmitDisabled
    /\ cleared' = FALSE
    /\ IF ~GenresValid(genres)
       THEN /\ error' = Some(EmptyGenresMessage)
            /\ UNCHANGED <<mood, genres, language, platform, recommendations, loading, requests, nfetch, edits>>
       ELSE /\ nfetch < MaxRequests
            /\ loading' = TRUE
            /\ error' = Null
            /\ nfetch' = nfetch + 1
            /\ requests' = requests \cup
                 {[id |-> nfetch + 1,
                   body |-> Stringify(mood, genres, language, platform),
                   stage |-> "fetch",
                   data |-> Null]}
            /\ UNCHANGED <<mood, genres, language, platform, edits, recommendations>>

\* catch (err): setError(err.message || '...')
CatchSwallow(message) == error
CatchError(message) == Some(IF message # "" THEN message ELSE FallbackMessage)

\* the requests still pending once the handler of r has run to its end
SettleRetry(r) == (requests \ {r}) \cup {[r EXCEPT !.stage = "fetch", !.data = Null]}
Settle(r) == requests \ {r}

\* the backend never answers this request
BackendHangs(r) ==
    /\ r.stage = "fetch"
    /\ requests' = (requests \ {r}) \cup {[r EXCEPT !.stage = "hung"]}
    /\ UNCHANGED <<mood, genres, language, platform, recommendations, loading, error, nfetch, edits, cleared>>

\* the fetch promise resolves with a response; !response.ok throws
FetchResolves(r, ok, text) ==
    /\ r.stage = "fetch"
    /\ IF ok
       THEN /\ requests' = (requests \ {r}) \cup
                 {[r EXCEPT !.stage = "json", !.data = Some(BackendResponse(r.body, text))]}
            /\ UNCHANGED <<recommendations, loading, error>>
       ELSE /\ error' = CatchError(NotOkMessage)
            /\ loading' = FALSE
            /\ requests' = Settle(r)
            /\ UNCHANGED recommendations
    /\ UNCHANGED <<mood, genres, language, platform, nfetch, edits, cleared>>

\* the fetch promise rejects (network failure)
FetchRejects(r, message) ==
    /\ r.stage = "fetch"
    /\ error' = CatchError(message)
    /\ loading' = FALSE
    /\ requests' = Settle(r)
    /\ UNCHANGED <<mood, genres, language, platform, recommendations, nfetch, edits, cleared>>

\* response.json() resolves: setRecommendations(data)
JsonResolvesShowsForm(r) ==
    /\ r.stage = "json"
    /\ recommendations' = Some([Value(r.data) EXCEPT !.preferences =
           [mood |-> mood, genres |-> genres, language |-> language, platform |-> platform]])
    /\ loading' = FALSE
    /\ requests' = Settle(r)
    /\ UNCHANGED <<mood, genres, language, platform, error, nfetch, edits, cleared>>

JsonResolves(r) ==
    /\ r.stage = "json"
    /\ recommendations' = r.data
    /\ loading' = FALSE
    /\ requests' = Settle(r)
    /\ UNCHANGED <<mood, genres, language, platform, error, nfetch, edits, cleared>>

\* response.json() rejects: the body is not JSON
JsonRejectsDropsResult(r, message) ==
    /\ r.stage = "json"
    /\ error' = CatchError(message)
    /\ recommendations' = Null
    /\ loading' = FALSE
    /\ requests' = Settle(r)
    /\ UNCHANGED <<mood, genres, language, platform, nfetch, edits, cleared>>

JsonRejects(r, message) ==
    /\ r.stage = "json"
    /\ error' = CatchError(message)
    /\ loading' = FALSE
    /\ requests' = Settle(r)
    /\ UNCHANGED <<mood, genres, language, platform, recommendations, nfetch, edits, cleared>>

\* ------------------------------------------------- handleClear
HandleClearKeepsError ==
    /\ recommendations' = Null
    /\ cleared' = TRUE
    /\ UNCHANGED <<mood, genres, language, platform, loading, error, requests, nfetch, edits>>

HandleClear ==
    /\ recommendations' = Null
    /\ error' = Null
    /\ cleared' = TRUE
    /\ UNCHANGED <<mood, genres, language, platform, loading, requests, nfetch, edits>>

\* ------------------------------------------------- specification
\* a settled promise resumes handleGetRecommendations
Deliver ==
    \E r \in requests :
        \/ \E ok \in BOOLEAN, text \in ModelTexts : FetchResolves(r, ok, text)
        \/ \E message \in NetworkMessages : FetchRejects(r, message)
        \/ JsonResolves(r)
        \/ \E message \in ParseMessages : JsonRejects(r, message)

Next ==
    \/ \E m \in MoodChoices : SetMood(m)
    \/ \E l \in LanguageChoices : SetLanguage(l)
    \/ \E p \in PlatformChoices : SetPlatform(p)
    \/ \E genre \in GenreChoices : HandleGenreToggle(genre)
    \/ HandleGetRecommendations
    \/ HandleClear
    \/ \E r \in requests : BackendHangs(r)
    \/ \E r \in requests, ok \in BOOLEAN, text \in ModelTexts : FetchResolves(r, ok, text)
    \/ \E r \in requests, message \in NetworkMessages : FetchRejects(r, message)
    \/ \E r \in requests : JsonResolves(r)
    \/ \E r \in requests, message \in ParseMessages : JsonRejects(r, message)

Spec == Init /\ [][Next]_vars

\* a response the backend sends is delivered and the handler resumes; the
\* backend itself owes no answer
FairSpec == Spec /\ WF_vars(Deliver)

\* ------------------------------------------------- properties
Ids(rs) == {r.id : r \in rs}
NoDuplicates(s) == \A i, j \in 1..Len(s) : i # j => s[i] # s[j]
IndexOf(s, x) == CHOOSE i \in 1..Len(s) : s[i] = x
BothNull == recommendations = Null /\ error = Null

\* the step is the end of request r in a failure: the fetch rejects, the
\* response is not OK, or the body cannot be parsed
FailsIn(r) ==
    \/ \E message \in NetworkMessages : FetchRejects(r, message)
    \/ \E text \in ModelTexts : FetchResolves(r, FALSE, text)
    \/ \E message \in ParseMessages : JsonRejects(r, message)

\* the value is a whole response: the text and the four preferences
CompleteEnvelope(e) ==
    /\ DOMAIN e = {"recommendations", "preferences"}
    /\ DOMAIN e.preferences = {"mood", "genres", "language", "platform"}

\* C1: a click on Get Recommendations with no genre selected sets the
\* validation error, issues no fetch, and leaves loading and recommendations
\* as they were; no request that was sent carries an empty genre list.
C1_EmptyGenresFailFast ==
    /\ [](\A r \in requests : ParseBody(r.body).genres # <<>>)
    /\ [][(genres = <<>> /\ HandleGetRecommendations) =>
            /\ error' = Some(EmptyGenresMessage)
            /\ nfetch' = nfetch
            /\ requests' = requests
            /\ loading' = loading
            /\ recommendations' = recommendations]_vars

C1_Witness ==
    /\ genres = <<>>
    /\ error = Some(EmptyGenresMessage)
    /\ requests = {}
    /\ nfetch = 0

\* C2: the selected genres never hold a duplicate, hold only values of
\* allGenres, and a toggle keeps the relative order of the genres that stay
\* and puts an added genre last.
C2_GenresCanonical ==
    /\ [](NoDuplicates(genres) /\ Elems(genres) \subseteq Elems(allGenres))
    /\ [][/\ \A a, b \in Elems(genres) \cap Elems(genres') :
                (IndexOf(genres, a) < IndexOf(genres, b))
                    <=> (IndexOf(genres', a) < IndexOf(genres', b))
          /\ \A a \in Elems(genres') \ Elems(genres) :
                IndexOf(genres', a) = Len(genres')]_vars

C2_Witness ==
    /\ Len(genres) = 2
    /\ ~Includes(genres, "Drama")

\* C3: an accepted click issues exactly one fetch; no other step issues one,
\* and a request that ended in a failure is no longer pending (no retry).
C3_SingleCallNoRetry ==
    [][/\ (genres # <<>> /\ HandleGetRecommendations) =>
            /\ nfetch' = nfetch + 1
            /\ Cardinality(requests') = Cardinality(requests) + 1
       /\ nfetch' # nfetch =>
            /\ HandleGetRecommendations
            /\ nfetch' = nfetch + 1
            /\ Ids(requests') = Ids(requests) \cup {nfetch'}
       /\ nfetch' = nfetch => Ids(requests') \subseteq Ids(requests)
       /\ \A r \in requests : FailsIn(r) => r.id \notin Ids(requests')]_vars

C3_Witness ==
    /\ nfetch = 1
    /\ requests = {}
    /\ error = Some(NotOkMessage)
    /\ ~loading

\* C4: a request the backend never answers eventually ends with an error
\* and with loading back to false.
C4_TimeoutBounds ==
    (\E r \in requests : r.stage = "hung") ~> (~loading /\ error # Null)

\* C5: a request that ends in a failure ends with error set to a message
\* and loading false.
C5_FailureReported ==
    [][\A r \in requests : FailsIn(r) => (error' # Null /\ loading' = FALSE)]_vars

C5_Witness ==
    /\ error = Some(FallbackMessage)
    /\ ~loading
    /\ requests = {}

\* C6: a failed request leaves recommendations as it was; recommendations
\* changes only by Clear Results or by a request that succeeded, which sets
\* it to the whole response.
C6_NoPartialEnvelope ==
    /\ [](recommendations # Null => CompleteEnvelope(Value(recommendations)))
    /\ [][/\ \A r \in requests : FailsIn(r) => recommendations' = recommendations
          /\ recommendations' # recommendations =>
                \/ HandleClear
                \/ \E r \in requests :
                      /\ r.stage = "json"
                      /\ r.id \notin Ids(requests')
                      /\ recommendations' = r.data]_vars

C6_Witness ==
    /\ recommendations # Null
    /\ error \in {Some(NotOkMessage), Some(FallbackMessage)} \cup {Some(m) : m \in ParseMessages}
    /\ ~loading

\* C7: the body of a request is the form as it is at the click, and the
\* preferences of the result a request sets are those of its body, whatever
\* the form holds when the response arrives.
C7_EnvelopeCarriesSubmittedPreferences ==
    [][/\ nfetch' # nfetch =>
            \E r \in requests' \ requests :
                r.body = Stringify(mood, genres, language, platform)
       /\ \A r \in requests : JsonResolves(r) =>
            LET p == Value(recommendations').preferences
            IN  Stringify(p.mood, p.genres, p.language, p.platform) = r.body]_vars

C7_Witness ==
    /\ recommendations # Null
    /\ nfetch = 1
    /\ ~loading
    /\ Value(recommendations).preferences.genres # genres
    /\ Value(recommendations).preferences.mood # mood

\* C9: at most one request is in flight, loading is true exactly while one
\* is, and a fetch is issued only from a state where loading is false.
C9_SingleFlight ==
    /\ [](Cardinality(requests) <= 1 /\ (loading <=> requests # {}))
    /\ [][nfetch' # nfetch => ~loading]_vars

C9_Witness ==
    /\ loading
    /\ nfetch = 2
    /\ Cardinality(requests) = 1

\* C10 as stated: once Clear Results was clicked, recommendations and error
\* are null until Get Recommendations is clicked again.
C10_StaysClearedUntilSubmit == cleared => BothNull

\* C10 amended: Clear Results sets recommendations and error to null and
\* leaves the form and loading alone; after it they stay null until Get
\* Recommendations is clicked or a request that was in flight ends.
C10_ClearedUntilSubmitOrCompletion ==
    [][/\ HandleClear =>
            /\ recommendations' = Null
            /\ error' = Null
            /\ UNCHANGED <<mood, genres, language, platform, loading, requests>>
       /\ (cleared /\ BothNull /\ ~BothNull') =>
            \/ HandleGetRecommendations
            \/ \E r \in requests : r.id \notin Ids(requests')]_vars

C10_Witness ==
    /\ cleared
    /\ loading
    /\ BothNull
    /\ nfetch = 2

====
